---- MODULE Spec2Model ----
(***************************************************************************)
(* Incremental indexing pipeline of note2agent: KnowledgeBase.refresh /    *)
(* clear over a VectorStore (ChromaDB collection) and the index-metadata   *)
(* ledger, with DocumentProcessor's chunker and file hash.                 *)
(***************************************************************************)
EXTENDS Integers, Sequences, FiniteSets, TLC

(***************************************************************************)
(* Bounds of the model.                                                    *)
(***************************************************************************)
\* file contents are numbered 0..MaxContent; content c is a text of
\* c * TokenUnit tokens (content 0 is an empty / whitespace-only text)
MaxContent == 2
TokenUnit == 300
\* number of refresh()/clear() calls in one behaviour
MaxClock == 2
\* number of external calls that fail during one refresh()
MaxFaults == 1
\* number of files the documents directory holds at a time
MaxFiles == 2
\* a DocumentProcessor under test is built with chunk_size in 1..MaxSize and
\* chunk_overlap in 0..MaxSize, and chunks texts of 0..MaxTokens tokens
MaxSize == 4
MaxTokens == 6
\* number of process_file calls one DocumentProcessor is followed through
MaxCalls == 2

(***************************************************************************)
(* Program constants.                                                      *)
(***************************************************************************)
chunk_size == 512
chunk_overlap == 50
\* json null / Python None for last_updated; real instants are >= 1
None == 0
\* a path of the file system that holds no file
Absent == -1

Contents == 0..MaxContent

\* Paths under the documents directory: <<directory, stem, extension>>
Paths ==
    { <<"d1", "x", "txt">>, <<"d2", "x", "txt">>, <<"d1", "y", "md">>,
      <<"d1", "a", "docx">> }

supported_extensions == {"pdf", "md", "markdown", "txt"}

\* Path.name: the basename, without the directory
Name(p) == <<p[2], p[3]>>
\* Path.suffix
Suffix(p) == p[3]

Range(s) == {s[i] : i \in 1..Len(s)}
Min(a, b) == IF a < b THEN a ELSE b

VARIABLES
    fs,              \* the documents directory: path -> content or Absent
    collection,      \* the ChromaDB collection: id -> [document, metadata]
    index_metadata,  \* KnowledgeBase.index_metadata (the in-memory ledger)
    index_file,      \* the ledger file on disk
    add_mode,        \* what collection.add does with an id that exists
    clock,           \* datetime.now(), one tick per call
    op,              \* the last call and what it returned
    dp,              \* a DocumentProcessor and the call it is running
    other_kb         \* index_metadata of a second KnowledgeBase on the same
                     \* ledger file and collection

vars ==
    <<fs, collection, index_metadata, index_file, add_mode, clock, op, dp,
      other_kb>>

(***************************************************************************)
(* DocumentProcessor                                                       *)
(***************************************************************************)
\* len(self.encoding.encode(text))
count_tokens(c) == c * TokenUnit

\* a Python slice index i over a list of n elements: a negative index counts
\* from the end, and the result is clamped to 0..n
SliceIndex(i, n) ==
    IF i < 0 THEN (IF i + n < 0 THEN 0 ELSE i + n) ELSE Min(i, n)

\* mutant of Window: the slice takes one token too many
Window_one_more(n, start, size) ==
    [start |-> SliceIndex(start, n),
     end |-> IF SliceIndex(start + size + 1, n) < SliceIndex(start, n)
             THEN SliceIndex(start, n)
             ELSE SliceIndex(start + size + 1, n)]

\* tokens[start:end] with end = start + chunk_size: the token positions
\* start .. end - 1 of the window
Window(n, start, size) ==
    [start |-> SliceIndex(start, n),
     end |-> IF SliceIndex(start + size, n) < SliceIndex(start, n)
             THEN SliceIndex(start, n)
             ELSE SliceIndex(start + size, n)]

\* mutant of NextStart: the overlap is left out of the step
NextStart_no_overlap(start, size, overlap) == start + size

\* mutant of NextStart: the overlap is added to the step
NextStart_plus_overlap(start, size, overlap) == start + (size + overlap)

\* start += self.chunk_size - self.chunk_overlap
NextStart(start, size, overlap) == start + (size - overlap)

\* the while loop of _chunk_text over n tokens: the token windows
\* tokens[start:end], in order
RECURSIVE ChunkWindows(_, _, _, _)
ChunkWindows(n, start, size, overlap) ==
    IF start < n
    THEN <<Window(n, start, size)>>
         \o ChunkWindows(n, NextStart(start, size, overlap), size, overlap)
    ELSE <<>>

chunk_text(n) == ChunkWindows(n, 0, chunk_size, chunk_overlap)

\* hashlib.sha256 over the file's bytes: distinct contents, distinct digests
Sha256(c) == <<"sha256", c>>

compute_file_hash(p) == Sha256(fs[p])

\* text.strip() is empty
IsBlank(c) == count_tokens(c) = 0

\* _process_markdown: the chunks of a text file, each with its metadata
process_markdown(p) ==
    IF IsBlank(fs[p])
    THEN <<>>
    ELSE LET text_chunks == chunk_text(count_tokens(fs[p]))
         IN [i \in 1..Len(text_chunks) |->
                [text |-> <<fs[p], text_chunks[i].start, text_chunks[i].end>>,
                 metadata |->
                    [source |-> Name(p),
                     file_path |-> p,
                     file_type |-> Suffix(p),
                     chunk_index |-> i - 1,
                     file_hash |-> compute_file_hash(p)]]]

\* the pages of a PDF of content c, as fitz gives them: the number of tokens
\* of each page's text; the first page holds no text
PdfPages(c) == [i \in 1..(c + 1) |-> (i - 1) * TokenUnit]

\* the chunks of the pages from page_num on (0-indexed), as the loop of
\* _process_pdf finds them, without their metadata: a page without text is
\* passed over
RECURSIVE PdfItems(_, _)
PdfItems(c, page_num) ==
    IF page_num >= Len(PdfPages(c)) THEN <<>>
    ELSE LET n == PdfPages(c)[page_num + 1]
             page_chunks == IF n = 0 THEN <<>> ELSE chunk_text(n)
         IN [i \in 1..Len(page_chunks) |->
                [text |-> <<c, page_num + 1, page_chunks[i].start,
                            page_chunks[i].end>>,
                 page |-> page_num + 1, chunk_index |-> i - 1]]
            \o PdfItems(c, page_num + 1)

\* _process_pdf: the chunks of every page, each with its metadata
process_pdf(p) ==
    LET items == PdfItems(fs[p], 0)
    IN [i \in 1..Len(items) |->
           [text |-> items[i].text,
            metadata |->
               [source |-> Name(p),
                file_path |-> p,
                file_type |-> "pdf",
                page |-> items[i].page,
                total_pages |-> Len(PdfPages(fs[p])),
                chunk_index |-> items[i].chunk_index,
                file_hash |-> compute_file_hash(p)]]]

\* process_file: dispatch on the extension; "ok" with the chunks, or "raise"
process_file(p) ==
    IF fs[p] = Absent THEN [ok |-> FALSE, chunks |-> <<>>]
    ELSE IF Suffix(p) = "pdf"
    THEN [ok |-> TRUE, chunks |-> process_pdf(p)]
    ELSE IF Suffix(p) \in {"md", "markdown", "txt"}
    THEN [ok |-> TRUE, chunks |-> process_markdown(p)]
    ELSE [ok |-> FALSE, chunks |-> <<>>]

(***************************************************************************)
(* VectorStore                                                             *)
(***************************************************************************)
\* the id add_documents gives a chunk: source, page (0 when absent), index
ChunkId(chunk) ==
    <<chunk.metadata.source,
      IF "page" \in DOMAIN chunk.metadata THEN chunk.metadata.page ELSE 0,
      chunk.metadata.chunk_index>>

\* collection.delete(where={"file_hash": file_hash})
delete_by_hash(coll, file_hash) ==
    [id \in {i \in DOMAIN coll : coll[i].metadata.file_hash # file_hash}
        |-> coll[id]]

\* collection.add(ids, documents, metadatas, embeddings): "ok" and the new
\* collection.  An id that is already in the collection is replaced
\* ("upsert", the contract of the spec), left as it is ("ignore") or makes
\* the call fail ("raise"), depending on the ChromaDB build.
collection_add(coll, chunks, mode) ==
    LET ids == {ChunkId(chunks[i]) : i \in 1..Len(chunks)}
        rec(id) == LET i == CHOOSE j \in 1..Len(chunks) : ChunkId(chunks[j]) = id
                   IN [document |-> chunks[i].text,
                       metadata |-> chunks[i].metadata]
        written == IF mode = "upsert" THEN ids ELSE ids \ DOMAIN coll
    IN IF mode = "raise" /\ ids \cap DOMAIN coll # {}
       THEN [ok |-> FALSE, coll |-> coll]
       ELSE [ok |-> TRUE,
             coll |-> [id \in DOMAIN coll \cup ids |->
                          IF id \in written THEN rec(id) ELSE coll[id]]]

\* add_documents: embed the texts, then collection.add; fk is the call that
\* fails for this file ("none" when none does)
add_documents(coll, chunks, mode, fk) ==
    IF Len(chunks) = 0 THEN [ok |-> TRUE, coll |-> coll]
    ELSE IF fk \in {"embed", "add"} THEN [ok |-> FALSE, coll |-> coll]
    ELSE collection_add(coll, chunks, mode)

(***************************************************************************)
(* KnowledgeBase                                                           *)
(***************************************************************************)
EmptyLedger == [files |-> <<>>, last_updated |-> None]

\* self.index_metadata.get("files", {})
LedgerFiles(ledger) == IF "files" \in DOMAIN ledger THEN ledger.files ELSE <<>>

\* the calls that can fail while one file is handled
FaultKinds == {"decide", "extract", "delete", "embed", "add"}

NoFault == [p \in Paths |-> "none"]

\* the assignments of a failing call to at most n of the paths in S
RECURSIVE FaultMaps(_, _)
FaultMaps(S, n) ==
    IF n = 0 THEN {NoFault}
    ELSE LET prev == FaultMaps(S, n - 1)
         IN prev \cup {[f EXCEPT ![p] = k] :
                          f \in prev, p \in S, k \in FaultKinds}

\* mutant of should_process_file: a file of the ledger is processed again
\* whatever its hash
should_process_file_no_compare(files, p, incremental, force, fk) ==
    IF fk = "decide" /\ incremental /\ ~force /\ p \in DOMAIN files
    THEN "raise"
    ELSE "yes"

\* mutant of should_process_file: a file that is not in the ledger is left
\* out by an incremental refresh
should_process_file_new_skipped(files, p, incremental, force, fk) ==
    IF force THEN "yes"
    ELSE IF ~incremental THEN "yes"
    ELSE IF p \notin DOMAIN files THEN "no"
    ELSE IF fk = "decide" THEN "raise"
    ELSE IF compute_file_hash(p) # files[p].hash THEN "yes"
    ELSE "no"

\* _should_process_file: "yes", "no", or "raise" when hashing the file fails
should_process_file(files, p, incremental, force, fk) ==
    IF force THEN "yes"
    ELSE IF ~incremental THEN "yes"
    ELSE IF p \notin DOMAIN files THEN "yes"
    ELSE IF fk = "decide" THEN "raise"
    ELSE IF compute_file_hash(p) # files[p].hash THEN "yes"
    ELSE "no"

\* mutant of update_index_metadata: an entry that exists keeps its chunk
\* count
update_index_metadata_stale_count(st, p, file_hash, num_chunks) ==
    [st EXCEPT
        !.files = [q \in DOMAIN st.files \cup {p} |->
                      IF q = p
                      THEN [hash |-> file_hash,
                            chunks |-> IF p \in DOMAIN st.files
                                       THEN st.files[p].chunks
                                       ELSE num_chunks,
                            indexed_at |-> clock]
                      ELSE st.files[q]],
        !.last_updated = clock]

\* _update_index_metadata: the entry of the file, and last_updated
update_index_metadata(st, p, file_hash, num_chunks) ==
    [st EXCEPT
        !.files = [q \in DOMAIN st.files \cup {p} |->
                      IF q = p
                      THEN [hash |-> file_hash, chunks |-> num_chunks,
                            indexed_at |-> clock]
                      ELSE st.files[q]],
        !.last_updated = clock]

\* mutant of handle_deleted_files: the chunks are deleted, the entry stays
RECURSIVE handle_deleted_files_keep_entry(_, _, _, _)
handle_deleted_files_keep_entry(st, indexed_files, current_file_paths, fault) ==
    IF Len(indexed_files) = 0 THEN st
    ELSE LET file_path == Head(indexed_files)
             rest == Tail(indexed_files)
         IN IF file_path \in current_file_paths
            THEN handle_deleted_files_keep_entry(st, rest, current_file_paths,
                                                 fault)
            ELSE IF fault[file_path] = "delete"
            THEN [st EXCEPT !.propagated = TRUE]
            ELSE handle_deleted_files_keep_entry(
                    [st EXCEPT
                        !.collection =
                            delete_by_hash(@, st.files[file_path].hash),
                        !.deleted = Append(@, file_path)],
                    rest, current_file_paths, fault)

\* _handle_deleted_files: over the ledger's paths in their order; a failing
\* delete_by_hash is not caught here and ends the walk (st.propagated)
RECURSIVE handle_deleted_files(_, _, _, _)
handle_deleted_files(st, indexed_files, current_file_paths, fault) ==
    IF Len(indexed_files) = 0 THEN st
    ELSE LET file_path == Head(indexed_files)
             rest == Tail(indexed_files)
         IN IF file_path \in current_file_paths
            THEN handle_deleted_files(st, rest, current_file_paths, fault)
            ELSE IF fault[file_path] = "delete"
            THEN [st EXCEPT !.propagated = TRUE]
            ELSE handle_deleted_files(
                    [st EXCEPT
                        !.collection =
                            delete_by_hash(@, st.files[file_path].hash),
                        !.files = [q \in DOMAIN @ \ {file_path} |-> @[q]],
                        !.deleted = Append(@, file_path)],
                    rest, current_file_paths, fault)

\* mutant of RecordError: the error is printed and not appended to the stats
RecordError_not_appended(st, p) ==
    [st EXCEPT !.raised = @ \cup {p}]

\* the except branch of the loop: the error message names the file
RecordError(st, p) ==
    [st EXCEPT !.errors = Append(@, Name(p)), !.raised = @ \cup {p}]

\* the body of the loop of refresh() for one file; in a ledger without
\* "files", self.index_metadata["files"][file_key] = ... raises KeyError after
\* the chunks are added
ProcessOne(st, p, incremental, force, fk) ==
    LET decision == should_process_file(st.files, p, incremental, force, fk)
        hashed == IF incremental /\ ~force /\ p \in DOMAIN st.files
                  THEN {<<p, "hash">>} ELSE {}
        s0 == [st EXCEPT !.visited = @ \cup {p}, !.calls = @ \cup hashed]
    IN IF decision = "raise" THEN RecordError(s0, p)
       ELSE IF decision = "no"
       THEN [s0 EXCEPT !.skipped = @ \cup {p}]
       ELSE LET s1 == [s0 EXCEPT !.calls = @ \cup {<<p, "extract">>}]
                got == process_file(p)
            IN IF fk = "extract" \/ ~got.ok THEN RecordError(s1, p)
               ELSE IF Len(got.chunks) = 0
               THEN [s1 EXCEPT !.empty = @ \cup {p}]
               ELSE LET chunks == got.chunks
                        file_hash == chunks[1].metadata.file_hash
                        s2 == IF incremental
                              THEN [s1 EXCEPT !.calls = @ \cup {<<p, "delete">>}]
                              ELSE s1
                    IN IF incremental /\ fk = "delete" THEN RecordError(s2, p)
                       ELSE LET s3 == IF incremental
                                      THEN [s2 EXCEPT !.collection =
                                               delete_by_hash(@, file_hash)]
                                      ELSE s2
                                s4 == [s3 EXCEPT !.calls = @ \cup
                                         (IF fk = "embed"
                                          THEN {<<p, "embed">>}
                                          ELSE {<<p, "embed">>, <<p, "add">>})]
                                added == add_documents(s3.collection, chunks,
                                                       add_mode, fk)
                            IN IF ~added.ok THEN RecordError(s4, p)
                               ELSE IF ~st.has_files
                               THEN RecordError(
                                       [s4 EXCEPT !.collection = added.coll], p)
                               ELSE [update_index_metadata(
                                        [s4 EXCEPT !.collection = added.coll],
                                        p, file_hash, Len(chunks))
                                     EXCEPT !.calls = @ \cup {<<p, "record">>},
                                            !.processed = @ \cup {p},
                                            !.total_chunks = @ + Len(chunks)]

\* mutant of ProcessFiles: the first exception ends the loop
RECURSIVE ProcessFiles_abort(_, _, _, _, _)
ProcessFiles_abort(st, all_files, incremental, force, fault) ==
    IF Len(all_files) = 0 \/ st.raised # {} THEN st
    ELSE ProcessFiles_abort(
            ProcessOne(st, Head(all_files), incremental, force,
                       fault[Head(all_files)]),
            Tail(all_files), incremental, force, fault)

\* for file_path in all_files: ...
RECURSIVE ProcessFiles(_, _, _, _, _)
ProcessFiles(st, all_files, incremental, force, fault) ==
    IF Len(all_files) = 0 THEN st
    ELSE ProcessFiles(
            ProcessOne(st, Head(all_files), incremental, force,
                       fault[Head(all_files)]),
            Tail(all_files), incremental, force, fault)

\* the paths a refresh() meets: the files of the directory and the ledger's
Met == {p \in Paths : fs[p] # Absent} \cup DOMAIN LedgerFiles(index_metadata)

\* the sequences that hold every element of S once
PermSeqs(S) ==
    {s \in [1..Cardinality(S) -> S] :
        \A i, j \in 1..Cardinality(S) : i # j => s[i] # s[j]}

\* the paths that carry a supported extension
Supported(S) == {p \in S : Suffix(p) \in supported_extensions}

\* the orders in which the paths of S can be met: by rglob("*") for the
\* files of the directory, by the ledger's dictionary for its keys that are
\* no file of the directory.  How the two interleave changes nothing, so the
\* files come first; nor does the place of a path with an unsupported
\* extension, so these come last.
Listings(S) ==
    LET files == {p \in Supported(S) : fs[p] # Absent}
        rest == CHOOSE s \in PermSeqs(S \ Supported(S)) : TRUE
    IN {a \o b \o rest :
           a \in PermSeqs(files), b \in PermSeqs(Supported(S) \ files)}

\* refresh() in this mode makes call k for path p: a call that is not made
\* cannot fail
CallMade(p, k, incremental, force) ==
    CASE k = "none" -> TRUE
      [] k = "decide" -> /\ incremental /\ ~force /\ fs[p] # Absent
                         /\ p \in DOMAIN LedgerFiles(index_metadata)
      [] k = "delete" -> /\ incremental
                         /\ \/ fs[p] # Absent
                            \/ ~force /\ p \in DOMAIN LedgerFiles(index_metadata)
      [] OTHER -> fs[p] # Absent

\* the failing calls one refresh() in this mode can meet
Faults(incremental, force) ==
    {f \in FaultMaps(Supported(Met), MaxFaults) :
        \A p \in Paths : CallMade(p, f[p], incremental, force)}


\* what the previous call was, for a call that follows it
PrevOf(o) ==
    IF o.kind = "refresh" /\ o.result = "returned" /\ o.incremental /\ ~o.force
    THEN IF Len(o.stats.errors) = 0 THEN "incr_clean" ELSE "incr_errors"
    ELSE "other"

NoStats ==
    [total_files |-> 0, processed_files |-> 0, skipped_files |-> 0,
     deleted_files |-> 0, total_chunks |-> 0, errors |-> <<>>]

NoOp ==
    [kind |-> "init", result |-> "none", path_exists |-> TRUE,
     incremental |-> FALSE, force |-> FALSE,
     stats |-> NoStats, visited |-> {}, processed |-> {}, skipped |-> {},
     empty |-> {}, raised |-> {}, deleted |-> {}, changed |-> {},
     calls |-> {}, saves |-> 0, prev |-> "other", listing |-> <<>>,
     cleared |-> {}]

\* _save_index_metadata: json.dump of the in-memory ledger to the file
save_index_metadata(ledger) == [exists |-> TRUE, data |-> ledger]

\* no call of process_file has returned, or the file it read was written
\* since
NoResult == [file_path |-> <<>>, out |-> <<>>]

\* no DocumentProcessor yet
NoProcessor ==
    [pc |-> "none", chunk_size |-> 0, chunk_overlap |-> 0, entry |-> "none",
     tokens |-> 0, blank |-> FALSE, start |-> 0, chunks |-> <<>>,
     file_path |-> <<>>, pending |-> <<>>, out |-> <<>>,
     call_no |-> 0, touched |-> FALSE, prev |-> NoResult]

\* DocumentProcessor(): the processor a KnowledgeBase makes for itself
DefaultProcessor ==
    [NoProcessor EXCEPT !.pc = "idle", !.chunk_size = chunk_size,
                        !.chunk_overlap = chunk_overlap]

\* an empty collection and no ledger file
InitIndex ==
    /\ collection = <<>>
    /\ index_metadata = EmptyLedger
    /\ index_file = [exists |-> FALSE, data |-> EmptyLedger]
    /\ add_mode \in {"upsert", "ignore", "raise"}
    /\ clock = 1
    /\ op = NoOp
    /\ other_kb = EmptyLedger

\* an empty documents directory, and InitIndex
InitStore ==
    /\ fs = [p \in Paths |-> Absent]
    /\ InitIndex

Init ==
    /\ InitStore
    /\ dp = DefaultProcessor

\* a file is created or its bytes are replaced
WriteFile(p, c) ==
    /\ clock <= MaxClock
    /\ fs[p] # c
    /\ Cardinality({q \in Paths : fs[q] # Absent} \cup {p}) <= MaxFiles
    /\ fs' = [fs EXCEPT ![p] = c]
    /\ op' = [NoOp EXCEPT !.kind = "fs"]
    /\ UNCHANGED <<collection, index_metadata, index_file, add_mode, clock, dp,
                   other_kb>>

\* a file is removed
RemoveFile(p) ==
    /\ clock <= MaxClock
    /\ fs[p] # Absent
    /\ fs' = [fs EXCEPT ![p] = Absent]
    /\ op' = [NoOp EXCEPT !.kind = "fs"]
    /\ UNCHANGED <<collection, index_metadata, index_file, add_mode, clock, dp,
                   other_kb>>

\* the ledger and the collection as refresh() finds them, with its empty
\* stats
StartState ==
    [collection |-> collection,
     files |-> LedgerFiles(index_metadata),
     has_files |-> "files" \in DOMAIN index_metadata,
     last_updated |-> index_metadata.last_updated,
     propagated |-> FALSE,
     deleted |-> <<>>, errors |-> <<>>, total_chunks |-> 0,
     visited |-> {}, processed |-> {}, skipped |-> {},
     empty |-> {}, raised |-> {}, calls |-> {}]

\* mutant of RefreshMissing: the path is checked after the deleted files are
\* handled, against a directory listing that is empty
RefreshMissing_late_check(incremental, force) ==
    /\ clock <= MaxClock
    /\ clock' = clock + 1
    /\ \E indexed_files \in Listings(DOMAIN LedgerFiles(index_metadata)) :
        \E st1 \in {IF incremental /\ ~force
                    THEN handle_deleted_files(StartState, indexed_files, {},
                                              NoFault)
                    ELSE StartState} :
            /\ collection' = st1.collection
            /\ index_metadata' = [files |-> st1.files,
                                  last_updated |-> st1.last_updated]
    /\ op' = [NoOp EXCEPT !.kind = "refresh", !.result = "not_found",
                          !.path_exists = FALSE,
                          !.incremental = incremental, !.force = force,
                          !.prev = PrevOf(op)]
    /\ UNCHANGED <<fs, index_file, add_mode, dp, other_kb>>

\* refresh() on a path that does not exist: FileNotFoundError
RefreshMissing(incremental, force) ==
    /\ clock <= MaxClock
    /\ clock' = clock + 1
    /\ op' = [NoOp EXCEPT !.kind = "refresh", !.result = "not_found",
                          !.path_exists = FALSE,
                          !.incremental = incremental, !.force = force,
                          !.prev = PrevOf(op)]
    /\ UNCHANGED <<fs, collection, index_metadata, index_file, add_mode, dp,
                   other_kb>>

\* mutant of AllFiles: every file of the directory, whatever its extension
AllFiles_any_extension(listing) ==
    SelectSeq(listing, LAMBDA f : fs[f] # Absent)

\* the files refresh() finds: existing files with a supported extension
AllFiles(listing) ==
    SelectSeq(listing,
              LAMBDA f : fs[f] # Absent /\ Suffix(f) \in supported_extensions)

\* the body of refresh() on the documents directory: reconcile the deleted
\* files, handle each file found, save the ledger, return the stats
RefreshBody(incremental, force, listing, fault) ==
    /\ clock' = clock + 1
    /\ LET all_files == AllFiles(listing)
           current_file_paths == Range(all_files)
           indexed_files ==
               SelectSeq(listing,
                         LAMBDA f : f \in DOMAIN LedgerFiles(index_metadata))
           st1 == IF incremental /\ ~force
                  THEN handle_deleted_files(StartState, indexed_files,
                                            current_file_paths, fault)
                  ELSE StartState
       IN \E st2 \in {IF st1.propagated THEN st1
                       ELSE ProcessFiles(st1, all_files, incremental, force,
                                         fault)} :
          LET ledger == IF st2.has_files
                        THEN [files |-> st2.files,
                              last_updated |-> st2.last_updated]
                        ELSE index_metadata
          IN
          /\ collection' = st2.collection
          /\ index_metadata' = ledger
          /\ index_file' = IF st1.propagated THEN index_file
                           ELSE save_index_metadata(ledger)
          /\ op' = [kind |-> "refresh",
                    result |-> IF st1.propagated THEN "raised" ELSE "returned",
                    path_exists |-> TRUE,
                    incremental |-> incremental, force |-> force,
                    stats |-> IF st1.propagated THEN NoStats
                              ELSE [total_files |-> Len(all_files),
                                    processed_files |-> Cardinality(st2.processed),
                                    skipped_files |-> Cardinality(st2.skipped),
                                    deleted_files |-> Len(st2.deleted),
                                    total_chunks |-> st2.total_chunks,
                                    errors |-> st2.errors],
                    visited |-> st2.visited, processed |-> st2.processed,
                    skipped |-> st2.skipped, empty |-> st2.empty,
                    raised |-> st2.raised, deleted |-> Range(st2.deleted),
                    changed |-> {f \in current_file_paths :
                                    /\ f \in DOMAIN LedgerFiles(index_metadata)
                                    /\ LedgerFiles(index_metadata)[f].hash
                                          # compute_file_hash(f)},
                    calls |-> st2.calls,
                    saves |-> IF st1.propagated THEN 0 ELSE 1,
                    prev |-> PrevOf(op),
                    listing |-> all_files,
                    cleared |-> {}]
    /\ UNCHANGED <<fs, add_mode, dp, other_kb>>

\* refresh() on the documents directory
Refresh(incremental, force, listing, fault) ==
    /\ clock <= MaxClock
    /\ RefreshBody(incremental, force, listing, fault)

\* one more refresh() right after a refresh() that returned: the files are
\* as they were and the directory lists them in the same order; the call is
\* made as before or incrementally, and no call fails in it
RefreshAgain(incremental, force) ==
    /\ clock = MaxClock + 1
    /\ op.kind = "refresh" /\ op.result = "returned"
    /\ \/ incremental = op.incremental /\ force = op.force
       \/ incremental /\ ~force
    /\ \E rest \in Listings(Met \ Range(op.listing)) :
          RefreshBody(incremental, force, op.listing \o rest, NoFault)

\* mutant of Clear: the ledger is reset and saved before the collection is
\* dropped
Clear_ledger_first(fails) ==
    /\ clock <= MaxClock
    /\ clock' = clock + 1
    /\ index_metadata' = EmptyLedger
    /\ index_file' = save_index_metadata(EmptyLedger)
    /\ IF fails
       THEN /\ op' = [NoOp EXCEPT !.kind = "clear", !.result = "raised",
                                  !.saves = 1]
            /\ UNCHANGED collection
       ELSE /\ collection' = <<>>
            /\ op' = [NoOp EXCEPT !.kind = "clear", !.result = "returned",
                                  !.saves = 1,
                                  !.cleared = DOMAIN LedgerFiles(index_metadata)]
    /\ UNCHANGED <<fs, add_mode, dp, other_kb>>

\* clear(): clear_collection, then the empty ledger is saved; when dropping
\* the collection fails the exception leaves clear() at once.  op.cleared
\* notes the paths whose entries the call dropped.
Clear(fails) ==
    /\ clock <= MaxClock
    /\ clock' = clock + 1
    /\ IF fails
       THEN /\ op' = [NoOp EXCEPT !.kind = "clear", !.result = "raised"]
            /\ UNCHANGED <<collection, index_metadata, index_file>>
       ELSE /\ collection' = <<>>
            /\ index_metadata' = EmptyLedger
            /\ index_file' = save_index_metadata(EmptyLedger)
            /\ op' = [NoOp EXCEPT !.kind = "clear", !.result = "returned",
                                  !.saves = 1,
                                  !.cleared = DOMAIN LedgerFiles(index_metadata)]
    /\ UNCHANGED <<fs, add_mode, dp, other_kb>>

Next ==
    \/ \E p \in Paths, c \in Contents : WriteFile(p, c)
    \/ \E p \in Paths : RemoveFile(p)
    \/ \E incremental, force \in BOOLEAN : RefreshMissing(incremental, force)
    \/ /\ clock <= MaxClock
       /\ \E incremental, force \in BOOLEAN, listing \in Listings(Met) :
             \E fault \in Faults(incremental, force) :
                Refresh(incremental, force, listing, fault)
    \/ \E fails \in BOOLEAN : Clear(fails)

Spec == Init /\ [][Next]_vars

\* the calls of Next, and a further refresh() after the last of them
RerunNext ==
    \/ Next
    \/ \E incremental, force \in BOOLEAN : RefreshAgain(incremental, force)

RerunSpec == Init /\ [][RerunNext]_vars

(***************************************************************************)
(* The ledger file: loading it, and two KnowledgeBase objects on it         *)
(***************************************************************************)
\* what the ledger file can hold that no save wrote: bytes json.load cannot
\* parse, and a JSON object that has no "files"
DamagedData == {[garbage |-> TRUE], [last_updated |-> None]}

\* _load_index_metadata: the JSON value of the file as it is; the empty
\* ledger when the file is missing or json.load raises
load_index_metadata(file) ==
    IF file.exists /\ "garbage" \notin DOMAIN file.data
    THEN file.data
    ELSE EmptyLedger

KbVars == <<fs, collection, add_mode, clock, dp>>

\* the ledger file is written from outside the program
LedgerFileDamaged(data) ==
    /\ clock <= MaxClock
    /\ index_file # [exists |-> TRUE, data |-> data]
    /\ index_file' = [exists |-> TRUE, data |-> data]
    /\ op' = [NoOp EXCEPT !.kind = "fs"]
    /\ UNCHANGED <<KbVars, index_metadata, other_kb>>

\* KnowledgeBase(vector_store, index_file=...): a new object takes the place
\* of the one in use; its ledger is loaded from the file
NewKnowledgeBase ==
    /\ clock <= MaxClock
    /\ index_metadata' = load_index_metadata(index_file)
    /\ op' = [NoOp EXCEPT !.kind = "construct", !.result = "returned"]
    /\ UNCHANGED <<KbVars, index_file, other_kb>>

\* the next calls are made on the other KnowledgeBase object; no call is
\* running on either
OtherKnowledgeBase ==
    /\ clock <= MaxClock
    /\ index_metadata # other_kb
    /\ index_metadata' = other_kb
    /\ other_kb' = index_metadata
    /\ op' = [NoOp EXCEPT !.kind = "switch"]
    /\ UNCHANGED <<KbVars, index_file>>

\* refresh() on the documents directory, when no call fails in it
RefreshNoFault(incremental, force) ==
    /\ clock <= MaxClock
    /\ \E listing \in Listings(Met) :
          RefreshBody(incremental, force, listing, NoFault)

\* one KnowledgeBase at a time, on a ledger file that can be damaged
LoadNext ==
    \/ \E p \in Paths, c \in Contents : WriteFile(p, c)
    \/ \E p \in Paths : RemoveFile(p)
    \/ \E incremental, force \in BOOLEAN : RefreshNoFault(incremental, force)
    \/ \E data \in DamagedData : LedgerFileDamaged(data)
    \/ NewKnowledgeBase

LoadSpec == Init /\ [][LoadNext]_vars

\* two KnowledgeBase objects that take turns on one ledger file
InstancesNext ==
    \/ \E p \in Paths, c \in Contents : WriteFile(p, c)
    \/ \E p \in Paths : RemoveFile(p)
    \/ \E incremental, force \in BOOLEAN : RefreshNoFault(incremental, force)
    \/ \E fails \in BOOLEAN : Clear(fails)
    \/ NewKnowledgeBase
    \/ OtherKnowledgeBase

InstancesSpec == Init /\ [][InstancesNext]_vars

(***************************************************************************)
(* A DocumentProcessor on its own: construction and the chunking of a text *)
(***************************************************************************)
\* the texts handed to the chunker: the number of tokens the tokenizer gives
\* and whether text.strip() is empty; the empty text has no token, a text of
\* whitespace only has tokens
Texts == {t \in [tokens : 0..MaxTokens, blank : BOOLEAN] : t.tokens = 0 => t.blank}

\* the windowing loop is followed for at most this many windows
LoopCap == MaxTokens + 1

StoreVars ==
    <<fs, collection, index_metadata, index_file, add_mode, clock, op,
      other_kb>>

\* DocumentProcessor(chunk_size, chunk_overlap): the arguments are stored as
\* they come
Construct(size, overlap) ==
    /\ dp.pc = "none"
    /\ dp' = [NoProcessor EXCEPT !.pc = "idle", !.chunk_size = size,
                                 !.chunk_overlap = overlap]
    /\ UNCHANGED StoreVars

\* _chunk_text(text) is entered: the text is encoded, chunks = [], start = 0
EnterChunkText(d, text, entry) ==
    [d EXCEPT !.pc = "loop", !.entry = entry, !.tokens = text.tokens,
              !.blank = text.blank, !.start = 0, !.chunks = <<>>]

\* a call of _chunk_text(text)
ChunkText(text) ==
    /\ dp.pc = "idle"
    /\ dp' = EnterChunkText(dp, text, "chunk_text")
    /\ UNCHANGED StoreVars

\* mutant of ProcessMarkdown: the text is chunked without the strip() test
ProcessMarkdown_no_strip(text) ==
    /\ dp.pc = "idle"
    /\ dp' = EnterChunkText(dp, text, "process_markdown")
    /\ UNCHANGED StoreVars

\* _process_markdown on a file that holds text (_process_pdf on a page does
\* the same): no chunks when text.strip() is empty, else _chunk_text(text)
ProcessMarkdown(text) ==
    /\ dp.pc = "idle"
    /\ dp' = IF text.blank
             THEN [dp EXCEPT !.pc = "done", !.entry = "process_markdown",
                             !.tokens = text.tokens, !.blank = TRUE,
                             !.start = 0, !.chunks = <<>>]
             ELSE EnterChunkText(dp, text, "process_markdown")
    /\ UNCHANGED StoreVars

\* one test of the while condition of _chunk_text, and the body when it holds
LoopStep ==
    /\ dp.pc = "loop"
    /\ Len(dp.chunks) < LoopCap
    /\ dp' = IF dp.start < dp.tokens
             THEN [dp EXCEPT
                     !.chunks = Append(@, Window(dp.tokens, dp.start,
                                                 dp.chunk_size)),
                     !.start = NextStart(dp.start, dp.chunk_size,
                                         dp.chunk_overlap)]
             ELSE [dp EXCEPT !.pc = "done"]
    /\ UNCHANGED StoreVars

ChunkerInit ==
    /\ InitStore
    /\ dp = NoProcessor

ChunkerNext ==
    \/ \E size \in 1..MaxSize, overlap \in 0..MaxSize : Construct(size, overlap)
    \/ \E text \in Texts : ChunkText(text)
    \/ \E text \in Texts : ProcessMarkdown(text)
    \/ LoopStep

ChunkerSpec == ChunkerInit /\ [][ChunkerNext]_vars

(***************************************************************************)
(* Properties                                                              *)
(***************************************************************************)
\* the eligible files of the directory
CurrentFiles == Supported({p \in Paths : fs[p] # Absent})

\* the number of chunks a file of content c is split into
ChunkCount(c) == IF IsBlank(c) THEN 0 ELSE Len(chunk_text(count_tokens(c)))

\* the records of the collection that come from path p
RecordsOf(coll, p) == {id \in DOMAIN coll : coll[id].metadata.file_path = p}

\* the n chunks of the version of p with digest h are all in the collection
ChunksPresent(coll, p, h, n) ==
    /\ n >= 1
    /\ \A i \in 0..(n - 1) :
          /\ <<Name(p), 0, i>> \in DOMAIN coll
          /\ coll[<<Name(p), 0, i>>].metadata.file_path = p
          /\ coll[<<Name(p), 0, i>>].metadata.file_hash = h

\* the last call was a refresh() that returned its stats
Returned == op.kind = "refresh" /\ op.result = "returned"

\* this step is a call of refresh()
RefreshStep == clock' = clock + 1 /\ op'.kind = "refresh"

\* C1: after any refresh() or clear(), a path is in the ledger iff the chunks
\* of its most recent successfully indexed version are in the vector index.
C1_LedgerIndexConsistent ==
    op.kind \in {"refresh", "clear"} /\ op.result = "returned" =>
        \A p \in Paths :
            LET files == index_metadata.files
            IN IF p \in DOMAIN files
               THEN ChunksPresent(collection, p, files[p].hash, files[p].chunks)
               ELSE ~ \E c \in Contents :
                        ChunksPresent(collection, p, Sha256(c), ChunkCount(c))

\* C2: when an incremental refresh reprocesses a file whose ledger entry holds
\* another hash, no chunk of that file with the old hash is left in the index.
C2_OldHashChunksDeleted ==
    [][RefreshStep /\ op'.result = "returned" /\ op'.incremental /\ ~op'.force =>
        \A p \in op'.processed \cap DOMAIN index_metadata.files :
            index_metadata.files[p].hash # index_metadata'.files[p].hash =>
                ~ \E id \in RecordsOf(collection', p) :
                    collection'[id].metadata.file_hash
                        = index_metadata.files[p].hash]_vars

\* C3 (as stated): the second of two incremental refreshes in a row, with no
\* change of the files between them, processes no file.
C3_SecondRunProcessesNothing_Original ==
    Returned /\ op.incremental /\ ~op.force
        /\ op.prev \in {"incr_clean", "incr_errors"}
    => op.stats.processed_files = 0

\* C3 (amended): the second of two incremental refreshes in a row, with no
\* change of the files between them, processes no file, provided the first
\* one returned with no errors.
C3_SecondRunProcessesNothing ==
    Returned /\ op.incremental /\ ~op.force /\ op.prev = "incr_clean"
    => op.stats.processed_files = 0

\* C3 witness: a second incremental refresh, right after a first one without
\* errors, that skipped an indexed file.
C3_Witness ==
    /\ Returned /\ op.incremental /\ ~op.force /\ op.prev = "incr_clean"
    /\ op.stats.skipped_files >= 1
    /\ op.stats.processed_files = 0

\* C4: a file skipped by an incremental refresh is counted in skipped_files,
\* nothing is extracted, embedded, deleted, added or recorded for it, and its
\* index records and its ledger entry are the same after the refresh.
C4_SkippedFileUntouched ==
    [][RefreshStep /\ op'.result = "returned" =>
        /\ op'.stats.skipped_files = Cardinality(op'.skipped)
        /\ \A p \in op'.skipped :
            /\ op'.incremental /\ ~op'.force
            /\ index_metadata.files[p].hash = compute_file_hash(p)
            /\ {c \in op'.calls : c[1] = p} \subseteq {<<p, "hash">>}
            /\ p \in DOMAIN index_metadata'.files
            /\ index_metadata'.files[p] = index_metadata.files[p]
            /\ RecordsOf(collection', p) = RecordsOf(collection, p)
            /\ \A id \in RecordsOf(collection, p) :
                  collection'[id] = collection[id]]_vars

\* the chunks counted over the files a refresh processed
RECURSIVE SumChunks(_)
SumChunks(S) ==
    IF S = {} THEN 0
    ELSE LET p == CHOOSE q \in S : TRUE
         IN ChunkCount(fs[p]) + SumChunks(S \ {p})

\* what C5 says of a file p whose bytes changed since it was indexed
C5_Reprocessed(p) ==
    /\ p \in op.processed
    /\ op.stats.processed_files = Cardinality(op.processed)
    /\ op.stats.total_chunks = SumChunks(op.processed)
    /\ p \in DOMAIN index_metadata.files
    /\ index_metadata.files[p].hash = compute_file_hash(p)
    /\ index_metadata.files[p].chunks = ChunkCount(fs[p])

\* C5 (as stated): after the bytes of an indexed file change, the next
\* incremental refresh counts it in processed_files, total_chunks counts the
\* chunks of the new versions only, and its entry holds the new hash and count.
C5_ChangedFileReprocessed_Original ==
    Returned /\ op.incremental => \A p \in op.changed : C5_Reprocessed(p)

\* C5 (amended): the same, for a changed file whose new version yields at
\* least one chunk and for which no call failed during the refresh.
C5_ChangedFileReprocessed ==
    Returned /\ op.incremental =>
        \A p \in op.changed :
            ChunkCount(fs[p]) >= 1 /\ p \notin op.raised => C5_Reprocessed(p)

\* C5 witness: an incremental refresh reprocessed a changed file, which now
\* has one chunk, and processed nothing else.
C5_Witness ==
    /\ Returned /\ op.incremental /\ ~op.force
    /\ \E p \in op.changed \cap op.processed :
          /\ index_metadata.files[p].chunks = 1
          /\ op.stats.total_chunks = 1
          /\ Cardinality(RecordsOf(collection, p)) >= 1

\* the ledger's paths that are not among the eligible files
Stale == DOMAIN index_metadata.files \ CurrentFiles

\* C6: a returned incremental, non-force refresh removes every ledger path
\* that is not an eligible file: its chunks with the recorded hash leave the
\* index, its entry leaves the ledger, and it is counted once in
\* deleted_files; in force or full mode nothing is reconciled.
C6_DeletionReconciliation ==
    [][RefreshStep /\ op'.result = "returned" =>
        IF op'.incremental /\ ~op'.force
        THEN /\ op'.deleted = Stale
             /\ op'.stats.deleted_files = Cardinality(Stale)
             /\ \A p \in Stale :
                   /\ p \notin DOMAIN index_metadata'.files
                   /\ ~ \E id \in RecordsOf(collection', p) :
                         collection'[id].metadata.file_hash
                             = index_metadata.files[p].hash
        ELSE /\ op'.stats.deleted_files = 0
             /\ op'.deleted = {}
             /\ \A p \in Stale :
                   /\ p \in DOMAIN index_metadata'.files
                   /\ index_metadata'.files[p] = index_metadata.files[p]]_vars

\* C6 witness: an incremental refresh reconciled a removed file away.
C6_Witness ==
    /\ Returned /\ op.incremental /\ ~op.force
    /\ op.deleted # {}
    /\ op.stats.deleted_files = Cardinality(op.deleted)
    /\ op.deleted \cap DOMAIN index_metadata.files = {}

\* C7: an exception raised while one file is decided on, extracted, embedded
\* or indexed is caught and listed in errors with the file's name; the
\* refresh visits every eligible file and returns its stats.
C7_PartialFailureIsolation ==
    op.kind = "refresh" /\ op.raised # {} =>
        /\ op.result = "returned"
        /\ Len(op.stats.errors) = Cardinality(op.raised)
        /\ \A p \in op.raised : Name(p) \in Range(op.stats.errors)
        /\ op.visited = CurrentFiles
        /\ op.stats.total_files = Cardinality(CurrentFiles)

\* C7 witness: one file failed and another file was processed in the same
\* refresh.
C7_Witness ==
    /\ Returned /\ op.raised # {} /\ op.processed # {}
    /\ Len(op.stats.errors) = 1

\* C8: no failure of an embedding or index call leaves refresh(): whatever
\* fails, refresh() on an existing directory returns its stats.
C8_NoFailurePropagates ==
    op.kind = "refresh" /\ op.path_exists => op.result = "returned"

\* C9: refresh() on a directory that does not exist fails with not-found and
\* leaves the ledger in memory, the ledger file and the index as they were.
C9_MissingDirNoMutation ==
    [][RefreshStep /\ ~op'.path_exists =>
        /\ op'.result = "not_found"
        /\ UNCHANGED <<collection, index_metadata, index_file>>]_vars

\* C9 witness: refresh() of a missing directory, called while the ledger and
\* the index hold a file.
C9_Witness ==
    /\ op.kind = "refresh" /\ ~op.path_exists /\ op.result = "not_found"
    /\ DOMAIN index_metadata.files # {}
    /\ DOMAIN collection # {}

\* C10: every refresh() that returns has saved the ledger exactly once, after
\* the files, and the ledger's last_updated is the instant of that run.
C10_PersistOnceAndStamp ==
    Returned =>
        /\ op.saves = 1
        /\ index_file.exists
        /\ index_file.data = index_metadata
        /\ index_metadata.last_updated = clock - 1

\* refresh call o selected file p for processing: process_file was called
Selected(o, p) == <<p, "extract">> \in o.calls

\* C11: a file whose extraction, delete, embedding or add failed in a refresh
\* keeps its ledger entry as it was, and the next incremental refresh, with no
\* change of the files in between, selects it for processing again.
C11_FailedFileRetried ==
    [][RefreshStep /\ op'.result = "returned" =>
        /\ \A p \in op'.raised :
              /\ p \in DOMAIN index_metadata'.files
                    <=> p \in DOMAIN index_metadata.files
              /\ p \in DOMAIN index_metadata.files
                    => index_metadata'.files[p] = index_metadata.files[p]
        /\ Returned /\ op'.incremental /\ ~op'.force =>
              \A p \in op.raised :
                  Selected(op, p) /\ p \notin op'.raised => Selected(op', p)]_vars

\* the ledger's files mapping without the instants: path -> hash and count
Entries(files) ==
    [p \in DOMAIN files |-> [hash |-> files[p].hash, chunks |-> files[p].chunks]]

\* this step is a refresh() that returns, called right after a refresh() that
\* returned, in the same mode and over the same files in the same order
RerunStep ==
    /\ RefreshStep /\ Returned /\ op'.result = "returned"
    /\ op'.incremental = op.incremental /\ op'.force = op.force
    /\ op'.listing = op.listing

\* the index records and the ledger's files mapping are what they were
SameIndexAndLedger ==
    /\ collection' = collection
    /\ Entries(index_metadata'.files) = Entries(index_metadata.files)

\* C12: in every mode, a second refresh() with no change of the files leaves
\* the index records and the ledger's paths, hashes and chunk counts as the
\* first run left them: no chunk is duplicated or lost.  Stated here for the
\* runs in which no call fails for any file, where a retry plays no part.
C12_RerunIdempotent ==
    [][RerunStep /\ op.raised = {} /\ op'.raised = {} =>
        SameIndexAndLedger]_vars

(***************************************************************************)
(* process_file, one step at a time, beside a process that writes the      *)
(* files                                                                   *)
(***************************************************************************)
\* the files process_file is tried on
ExtractPaths == {<<"d1", "x", "txt">>, <<"d1", "p", "pdf">>}

IndexVars ==
    <<collection, index_metadata, index_file, add_mode, clock, op, other_kb>>

\* the processor, with the note that file p was written: a call on p that
\* has not handed over its result is touched, and the result of the previous
\* call on p is of another version of the file
Touch(d, p) ==
    [d EXCEPT !.touched = @ \/ (d.pc \in {"emit", "done"} /\ d.file_path = p),
              !.prev = IF @.file_path = p THEN NoResult ELSE @]

\* another process creates the file or replaces its bytes
OtherWrites(p, c) ==
    /\ fs[p] # c
    /\ fs' = [fs EXCEPT ![p] = c]
    /\ dp' = Touch(dp, p)
    /\ UNCHANGED IndexVars

\* another process removes the file
OtherRemoves(p) ==
    /\ fs[p] # Absent
    /\ fs' = [fs EXCEPT ![p] = Absent]
    /\ dp' = Touch(dp, p)
    /\ UNCHANGED IndexVars

\* the chunks of a text file of content c, without their metadata
MarkdownItems(c) ==
    IF IsBlank(c) THEN <<>>
    ELSE LET text_chunks == chunk_text(count_tokens(c))
         IN [i \in 1..Len(text_chunks) |->
                [text |-> <<c, text_chunks[i].start, text_chunks[i].end>>,
                 page |-> 0, chunk_index |-> i - 1]]

\* mutant of ProcessFileStart: the list of chunks is kept from the previous
\* call instead of starting empty
ProcessFileStart_keeps_chunks(p) ==
    /\ dp.pc = "idle"
    /\ dp.call_no < MaxCalls
    /\ dp' = IF fs[p] = Absent
             THEN [dp EXCEPT !.pc = "raised", !.entry = "process_file",
                             !.file_path = p, !.pending = <<>>, !.out = <<>>,
                             !.call_no = @ + 1, !.touched = FALSE]
             ELSE [dp EXCEPT !.pc = "emit", !.entry = "process_file",
                             !.file_path = p,
                             !.pending = IF Suffix(p) = "pdf"
                                         THEN PdfItems(fs[p], 0)
                                         ELSE MarkdownItems(fs[p]),
                             !.out = dp.prev.out,
                             !.call_no = @ + 1, !.touched = FALSE]
    /\ UNCHANGED <<fs, IndexVars>>

\* process_file(p) up to the first chunk's metadata: the file is read (the
\* PDF opened) and its text chunked; a missing file raises
ProcessFileStart(p) ==
    /\ dp.pc = "idle"
    /\ dp.call_no < MaxCalls
    /\ dp' = IF fs[p] = Absent
             THEN [dp EXCEPT !.pc = "raised", !.entry = "process_file",
                             !.file_path = p, !.pending = <<>>, !.out = <<>>,
                             !.call_no = @ + 1, !.touched = FALSE]
             ELSE [dp EXCEPT !.pc = "emit", !.entry = "process_file",
                             !.file_path = p,
                             !.pending = IF Suffix(p) = "pdf"
                                         THEN PdfItems(fs[p], 0)
                                         ELSE MarkdownItems(fs[p]),
                             !.out = <<>>,
                             !.call_no = @ + 1, !.touched = FALSE]
    /\ UNCHANGED <<fs, IndexVars>>

\* chunks.append({...}) for the next chunk: its metadata is built, with
\* "timestamp": datetime.now() and "file_hash":
\* self._compute_file_hash(file_path) read from the file now; a file that is
\* gone makes the call raise.  After the last chunk, return.
EmitChunk ==
    /\ dp.pc = "emit"
    /\ dp' = IF Len(dp.pending) = 0 THEN [dp EXCEPT !.pc = "done"]
             ELSE IF fs[dp.file_path] = Absent
             THEN [dp EXCEPT !.pc = "raised", !.pending = <<>>, !.out = <<>>]
             ELSE [dp EXCEPT
                     !.pending = Tail(@),
                     !.out = Append(@,
                        [text |-> Head(dp.pending).text,
                         metadata |->
                            [source |-> Name(dp.file_path),
                             file_path |-> dp.file_path,
                             page |-> Head(dp.pending).page,
                             chunk_index |-> Head(dp.pending).chunk_index,
                             timestamp |-> <<dp.call_no, Len(dp.out)>>,
                             file_hash |-> compute_file_hash(dp.file_path)]])]
    /\ UNCHANGED <<fs, IndexVars>>

\* the caller takes the result; the processor is ready for the next call
ProcessFileEnd ==
    /\ dp.pc \in {"done", "raised"} /\ dp.entry = "process_file"
    /\ dp' = [DefaultProcessor EXCEPT
                !.call_no = dp.call_no,
                !.prev = IF dp.pc = "done" /\ ~dp.touched
                         THEN [file_path |-> dp.file_path, out |-> dp.out]
                         ELSE NoResult]
    /\ UNCHANGED <<fs, IndexVars>>

ExtractInit ==
    /\ fs = [p \in ExtractPaths |-> Absent]
    /\ InitIndex
    /\ dp = DefaultProcessor

ExtractNext ==
    \/ \E p \in ExtractPaths, c \in Contents : OtherWrites(p, c)
    \/ \E p \in ExtractPaths : OtherRemoves(p)
    \/ \E p \in ExtractPaths : ProcessFileStart(p)
    \/ EmitChunk
    \/ ProcessFileEnd

ExtractSpec == ExtractInit /\ [][ExtractNext]_vars

(***************************************************************************)
(* Properties of the chunker                                               *)
(***************************************************************************)
\* ceil(a / b) for b > 0
CeilDiv(a, b) == 0 - ((0 - a) \div b)

\* the token positions of a window
Positions(w) == w.start .. (w.end - 1)

\* the number of tokens of a window
Tokens(w) == w.end - w.start

\* 0 <= chunk_overlap < chunk_size
ValidParams == 0 <= dp.chunk_overlap /\ dp.chunk_overlap < dp.chunk_size

\* _chunk_text has run on the text and returned its chunks
ChunkerReturned == dp.pc = "done" /\ (dp.entry = "chunk_text" \/ ~dp.blank)

\* C13 (as stated): for N > 0 tokens and 0 <= chunk_overlap < chunk_size the
\* chunker returns exactly ceil((N - chunk_overlap) / (chunk_size -
\* chunk_overlap)) chunks.
C13_ChunkCount_Original ==
    ChunkerReturned /\ ValidParams /\ dp.tokens > 0 =>
        Len(dp.chunks) = CeilDiv(dp.tokens - dp.chunk_overlap,
                                 dp.chunk_size - dp.chunk_overlap)

\* C13 (amended): for N > 0 tokens and 0 <= chunk_overlap < chunk_size the
\* chunker returns exactly ceil(N / (chunk_size - chunk_overlap)) chunks.
C13_ChunkCount ==
    ChunkerReturned /\ ValidParams /\ dp.tokens > 0 =>
        Len(dp.chunks) = CeilDiv(dp.tokens, dp.chunk_size - dp.chunk_overlap)

\* C13 witness: a text of exactly chunk_size tokens, chunked with an overlap,
\* came back as two chunks.
C13_Witness ==
    /\ ChunkerReturned /\ ValidParams
    /\ dp.chunk_overlap > 0 /\ dp.tokens = dp.chunk_size
    /\ Len(dp.chunks) = 2

\* every chunk holds at most chunk_size tokens
C14_AtMostChunkSize ==
    \A i \in 1..Len(dp.chunks) : Tokens(dp.chunks[i]) <= dp.chunk_size

\* C14 (as stated): for chunk_overlap < chunk_size every chunk holds at most
\* chunk_size tokens and consecutive chunks share exactly chunk_overlap
\* tokens, the last of the one being the first of the next.
C14_SizeAndOverlap_Original ==
    ChunkerReturned /\ ValidParams =>
        /\ C14_AtMostChunkSize
        /\ \A i \in 1..(Len(dp.chunks) - 1) :
              /\ Cardinality(Positions(dp.chunks[i])
                                \cap Positions(dp.chunks[i + 1]))
                    = dp.chunk_overlap
              /\ dp.chunks[i].end - dp.chunk_overlap = dp.chunks[i + 1].start

\* C14 (amended): for chunk_overlap < chunk_size every chunk holds at most
\* chunk_size tokens and consecutive chunks share exactly chunk_overlap
\* tokens, the last of the one being the first of the next, except that a
\* chunk of fewer than chunk_overlap tokens, at the end of the text, is shared
\* whole with the chunk before it.
C14_SizeAndOverlap ==
    ChunkerReturned /\ ValidParams =>
        /\ C14_AtMostChunkSize
        /\ \A i \in 1..(Len(dp.chunks) - 1) :
              LET k == Min(dp.chunk_overlap, Tokens(dp.chunks[i + 1]))
              IN /\ Cardinality(Positions(dp.chunks[i])
                                   \cap Positions(dp.chunks[i + 1])) = k
                 /\ dp.chunks[i].end - k = dp.chunks[i + 1].start
                 /\ k < dp.chunk_overlap => dp.chunks[i + 1].end = dp.tokens

\* C14 witness: three chunks or more came back, the first two sharing
\* chunk_overlap tokens and the last one shorter than the overlap.
C14_Witness ==
    /\ ChunkerReturned /\ ValidParams
    /\ dp.chunk_overlap >= 2 /\ Len(dp.chunks) >= 3
    /\ Tokens(dp.chunks[1]) = dp.chunk_size
    /\ Cardinality(Positions(dp.chunks[1]) \cap Positions(dp.chunks[2]))
          = dp.chunk_overlap
    /\ Tokens(dp.chunks[Len(dp.chunks)]) < dp.chunk_overlap

\* C15: for chunk_overlap < chunk_size the windows come in increasing start
\* order and together hold every token position of the text.
C15_OrderedCover ==
    ChunkerReturned /\ ValidParams =>
        /\ \A i \in 1..(Len(dp.chunks) - 1) :
              dp.chunks[i].start < dp.chunks[i + 1].start
        /\ UNION {Positions(dp.chunks[i]) : i \in 1..Len(dp.chunks)}
              = 0 .. (dp.tokens - 1)

\* C15 witness: the longest text came back as several overlapping chunks.
C15_Witness ==
    /\ ChunkerReturned /\ ValidParams
    /\ dp.chunk_overlap > 0 /\ dp.tokens = MaxTokens
    /\ Len(dp.chunks) >= 3

\* C16: a DocumentProcessor is constructed only with chunk_overlap <
\* chunk_size (the rest is rejected), and every turn of the windowing loop
\* moves the window start forward, so the loop ends.
C16_DegenerateRejected ==
    /\ dp.pc # "none" => dp.chunk_overlap < dp.chunk_size
    /\ dp.pc = "loop" =>
          NextStart(dp.start, dp.chunk_size, dp.chunk_overlap) > dp.start

\* C17 (as stated): the chunker returns an empty sequence for a text that is
\* empty or holds whitespace only.
C17_BlankTextNoChunks_Original ==
    dp.pc = "done" /\ dp.blank => dp.chunks = <<>>

\* C17 (amended): the chunker returns an empty sequence for the empty text,
\* and _process_markdown returns no chunks for a text that is empty or holds
\* whitespace only, without calling the chunker.
C17_BlankTextNoChunks ==
    dp.pc = "done" /\ dp.blank
        /\ (dp.tokens = 0 \/ dp.entry = "process_markdown")
    => dp.chunks = <<>>

\* C17 witness: _process_markdown returned no chunks for a text of whitespace
\* that the tokenizer turns into tokens.
C17_Witness ==
    /\ dp.pc = "done" /\ dp.entry = "process_markdown"
    /\ dp.blank /\ dp.tokens >= 1
    /\ dp.chunks = <<>>

(***************************************************************************)
(* Properties of process_file and of the record ids                        *)
(***************************************************************************)
\* C18: all chunks returned by one call of process_file carry the same
\* file_hash, also when another process rewrites the file during the call.
C18_OneHashPerCall ==
    dp.entry = "process_file" /\ dp.pc = "done" =>
        \A i, j \in 1..Len(dp.out) :
            dp.out[i].metadata.file_hash = dp.out[j].metadata.file_hash

\* the chunks the refresh got from file p and handed to add_documents
ChunksOf(p) == process_file(p).chunks

\* C19: the ids given to the chunks of the files one refresh has processed
\* are pairwise distinct, across files (same basename in different
\* directories included) and within a file.
C19_IdsGloballyUnique ==
    Returned =>
        \A p, q \in op.processed :
            \A i \in 1..Len(ChunksOf(p)), j \in 1..Len(ChunksOf(q)) :
                (p # q \/ i # j) =>
                    ChunkId(ChunksOf(p)[i]) # ChunkId(ChunksOf(q)[j])

(***************************************************************************)
(* Properties of the zero-chunk branch of refresh                          *)
(***************************************************************************)
\* what the refresh of this step did for file p, whose extraction gave no
\* chunk: nothing but the selection and the extraction, and p is in no count
EmptyFileOwnPart(p) ==
    /\ {c \in op'.calls : c[1] = p} \subseteq {<<p, "hash">>, <<p, "extract">>}
    /\ p \notin op'.processed \cup op'.skipped \cup op'.raised
    /\ op'.stats.processed_files = Cardinality(op'.processed)
    /\ op'.stats.skipped_files = Cardinality(op'.skipped)
    /\ Len(op'.stats.errors) = Cardinality(op'.raised)

\* the ledger entry of p, if any, and its index records are as before the step
EmptyFileFrame(p) ==
    /\ p \in DOMAIN index_metadata'.files <=> p \in DOMAIN index_metadata.files
    /\ p \in DOMAIN index_metadata.files =>
          index_metadata'.files[p] = index_metadata.files[p]
    /\ RecordsOf(collection', p) = RecordsOf(collection, p)
    /\ \A id \in RecordsOf(collection, p) : collection'[id] = collection[id]

\* C20: when the extraction of a selected file yields no chunk, no delete,
\* add or ledger update is made for it, its ledger entry and old index records
\* are as before the refresh, and it is counted in neither processed_files,
\* skipped_files nor errors.
C20_EmptyFileUntouched ==
    [][RefreshStep /\ op'.result = "returned" =>
        \A p \in op'.empty : EmptyFileOwnPart(p) /\ EmptyFileFrame(p)]_vars

(***************************************************************************)
(* Properties of the enumeration, the ledger file and the decision         *)
(***************************************************************************)
\* the files of the directory whose extension is not supported
Unsupported == {p \in Paths : fs[p] # Absent} \ CurrentFiles

\* C21: a file with an unsupported extension is left out at enumeration: it
\* is not counted in total_files, processed_files or skipped_files, no call is
\* made for it, it is in no error and it never is in the ledger.
C21_UnsupportedExcluded ==
    [][RefreshStep /\ op'.result = "returned" =>
        /\ op'.stats.total_files = Cardinality(CurrentFiles)
        /\ op'.stats.processed_files = Cardinality(op'.processed)
        /\ op'.stats.skipped_files = Cardinality(op'.skipped)
        /\ \A p \in Unsupported :
            /\ p \notin op'.visited \cup op'.processed \cup op'.skipped
                          \cup op'.raised \cup op'.empty
            /\ ~ \E c \in op'.calls : c[1] = p
            /\ Name(p) \notin Range(op'.stats.errors)
            /\ p \notin DOMAIN index_metadata'.files
            /\ p \notin DOMAIN index_file'.data.files
            /\ RecordsOf(collection', p) = {}]_vars

\* a refresh() that returned with an unsupported file beside a file it
\* processed
C21_Witness ==
    /\ Returned
    /\ Unsupported # {}
    /\ op.processed # {}
    /\ op.stats.total_files = 1

\* C22: constructing a KnowledgeBase never fails; a missing or corrupt ledger
\* file gives the empty ledger, and after any load the ledger in memory has a
\* files mapping.
C22_LoadGivesUsableLedger ==
    op.kind = "construct" =>
        /\ op.result = "returned"
        /\ (~index_file.exists \/ index_file.data \in DamagedData
               => index_metadata = EmptyLedger)
        /\ "files" \in DOMAIN index_metadata

\* C23: two calls of process_file on a file that is not modified give chunk
\* sequences of the same length, with the same texts in the same order, the
\* same chunk_index values and the same file_hash on every chunk.
C23_ProcessFileRepeatable ==
    /\ dp.entry = "process_file" /\ dp.pc = "done" /\ ~dp.touched
    /\ dp.prev.file_path = dp.file_path
    => /\ Len(dp.out) = Len(dp.prev.out)
       /\ \A i \in 1..Len(dp.out) :
            /\ dp.out[i].text = dp.prev.out[i].text
            /\ dp.out[i].metadata.chunk_index
                  = dp.prev.out[i].metadata.chunk_index
            /\ dp.out[i].metadata.file_hash = dp.prev.out[i].metadata.file_hash
            /\ dp.out[i].metadata.file_hash = compute_file_hash(dp.file_path)

\* a second call has returned the chunks of a file of several chunks that was
\* not written since the first call began; the timestamps differ
C23_Witness ==
    /\ dp.entry = "process_file" /\ dp.pc = "done" /\ ~dp.touched
    /\ dp.prev.file_path = dp.file_path
    /\ Len(dp.prev.out) >= 2
    /\ dp.out # dp.prev.out

\* C24: when refreshes do not overlap, no ledger update is lost: after a
\* refresh() that returned, the ledger file holds an entry for every file it
\* held an entry for before, unless this refresh reconciled the file as
\* deleted; also when the calls are made through different KnowledgeBase
\* objects.
C24_NoLostLedgerUpdate ==
    [][RefreshStep /\ op'.result = "returned" =>
        \A p \in DOMAIN index_file.data.files :
            \/ p \in DOMAIN index_file'.data.files
            \/ p \in op'.deleted]_vars

\* what C25 says the decision for file p is, in the refresh of this step
IsStale(p) ==
    \/ op'.force
    \/ ~op'.incremental
    \/ p \notin DOMAIN index_metadata.files
    \/ compute_file_hash(p) # index_metadata.files[p].hash

\* C25: the decision for a file is true exactly when force is set, or
\* incremental is false, or the path is not in the ledger, or the file's hash
\* differs from the recorded one, and false otherwise; it gives no answer only
\* when the file cannot be hashed.
C25_DecisionExact ==
    [][RefreshStep /\ op'.result = "returned" =>
        /\ op'.visited = CurrentFiles
        /\ \A p \in op'.visited :
            IF p \in op'.skipped THEN ~IsStale(p) /\ ~Selected(op', p)
            ELSE IF Selected(op', p) THEN IsStale(p)
            ELSE /\ p \in op'.raised
                 /\ <<p, "hash">> \in op'.calls
                 /\ op'.incremental /\ ~op'.force
                 /\ p \in DOMAIN index_metadata.files]_vars

\* an incremental refresh() that left out a file whose hash matches and took
\* a file whose hash has changed
C25_Witness ==
    /\ Returned /\ op.incremental /\ ~op.force
    /\ op.skipped # {}
    /\ \E p \in op.changed : Selected(op, p)

(***************************************************************************)
(* Properties of clear(), of the stats and of the deletes                  *)
(***************************************************************************)
\* this step is a call of clear()
ClearStep == clock' = clock + 1 /\ op'.kind = "clear"

\* C26: after a clear() that returned, the index holds no record and the
\* ledger in memory and the ledger file are the empty ledger; when dropping
\* the index fails, the ledger in memory and the ledger file are unchanged.
C26_ClearOrder ==
    [][ClearStep =>
        IF op'.result = "returned"
        THEN /\ collection' = <<>>
             /\ index_metadata' = EmptyLedger
             /\ index_file' = [exists |-> TRUE, data |-> EmptyLedger]
        ELSE /\ op'.result = "raised"
             /\ UNCHANGED <<collection, index_metadata, index_file>>]_vars

\* a clear() that returned after dropping the entries of an indexed file
C26_Witness ==
    /\ op.kind = "clear" /\ op.result = "returned"
    /\ op.cleared # {}
    /\ collection = <<>>

\* the chunk counts of the ledger entries of the files of S, added up
RECURSIVE LedgerChunks(_)
LedgerChunks(S) ==
    IF S = {} THEN 0
    ELSE LET p == CHOOSE q \in S : TRUE
         IN index_metadata.files[p].chunks + LedgerChunks(S \ {p})

\* C27: in the stats of a refresh() that returned, every eligible file has
\* exactly one of the outcomes processed, skipped, error and empty extraction;
\* processed_files + skipped_files + len(errors) <= total_files, with
\* equality exactly when no file extracted to zero chunks; total_chunks is
\* the sum of the chunk counts written to the ledger entries of the files
\* processed.
C27_StatsAccounting ==
    Returned =>
        LET s == op.stats
            counted == s.processed_files + s.skipped_files + Len(s.errors)
        IN /\ op.processed \cup op.skipped \cup op.raised \cup op.empty
                 = CurrentFiles
           /\ \A A, B \in {op.processed, op.skipped, op.raised, op.empty} :
                 A # B => A \cap B = {}
           /\ s.total_files = Cardinality(CurrentFiles)
           /\ s.processed_files = Cardinality(op.processed)
           /\ s.skipped_files = Cardinality(op.skipped)
           /\ Len(s.errors) = Cardinality(op.raised)
           /\ counted <= s.total_files
           /\ counted = s.total_files <=> op.empty = {}
           /\ op.processed \subseteq DOMAIN index_metadata.files
           /\ s.total_chunks = LedgerChunks(op.processed)

\* a refresh() that returned with a processed file of two chunks beside a
\* file that extracted to no chunk
C27_Witness ==
    /\ Returned
    /\ op.processed # {} /\ op.stats.total_chunks >= 2
    /\ op.empty # {}
    /\ op.stats.processed_files + op.stats.skipped_files
          + Len(op.stats.errors) < op.stats.total_files

\* C28: the deletes a refresh() issues for one file remove only that file's
\* records: a file that keeps its ledger entry and for which the refresh
\* issued no delete has, after the refresh, every index record it had before
\* (under its id), also when another file has the same bytes.
C28_DeletesConfinedToFile ==
    [][RefreshStep /\ op'.result = "returned" =>
        \A q \in DOMAIN index_metadata.files \cap DOMAIN index_metadata'.files :
            q \notin op'.deleted /\ <<q, "delete">> \notin op'.calls =>
                \A id \in RecordsOf(collection, q) : id \in DOMAIN collection']_vars

====
